---- MODULE Spec2Model ----
(***************************************************************************)
(* Model of the TechStack Governance pipeline:                             *)
(*   agentic_workflow.py   outer graph run_discovery -> run_code_analysis  *)
(*                         -> run_recommendation -> END                    *)
(*   discovery_agent.py    gather_repo_content_node (the fetcher)          *)
(*   code_analysis_agent.py / recommendation_agent.py                      *)
(*                         inner graphs generate -> reflect -> END and the *)
(*                         PDF story builders                              *)
(* Texts are sequences of tokens: every '#', blank, newline and code fence *)
(* is a token of its own, a run of other characters is one word token.     *)
(* A graph node that returns None writes no channel and the graph follows  *)
(* the node's outgoing edge all the same; invoke returns the channel       *)
(* values after the last step.                                             *)
(***************************************************************************)
EXTENDS Integers, Sequences, FiniteSets, TLC

\* ------------------------------------------------------------------ bounds
\* latest second the wall clock may show when a report is rendered
MaxClock == 1
\* longest rate-limit wait (seconds) the host may report
MaxWait == 2

\* longest text handed to the renderers on their own (after its heading)
MaxTextLen == 4
\* runs of the renderers on the same inputs
MaxRenders == 2

\* ------------------------------------------------------- program constants
max_retries == 3
AnalysisCeiling == 1
RecommendationCeiling == 2

END == "__end__"
NL == "\n"
\* the code-fence marker (three backticks), one token
FENCE == "<fence>"

\* --------------------------------------------------------------- the texts
ReportText == <<"#", "#", " ", "Report", NL, NL, "Looks", " ", "fine.">>
TitleText == <<"#", "#", "#", " ", "Title", NL, NL, "Dependency", " ", "list", NL, "ok">>
FenceText == <<FENCE, "x", FENCE, NL, NL, NL, " ", NL, NL, "plain">>

\* what the generation service may answer
EmptyText == <<>>
Texts == {ReportText, TitleText, FenceText, EmptyText}

\* what the fetcher may find ("|-- " stands for the branch glyph of the tree): a
\* repository with one small file, one with a directory of undecodable files
\* only, and an empty one
OneFile ==
  [file_tree |-> <<"|-- ", "a.py", NL>>,
   file_contents |-> <<"File: ", "a.py", NL, "Content:", NL, "def f(): pass", NL, NL>>,
   programming_languages |-> <<"Python">>]
NoContent ==
  [file_tree |-> <<"|-- ", "img", "/", NL>>,
   file_contents |-> <<>>,
   programming_languages |-> <<>>]
NoFiles ==
  [file_tree |-> <<>>, file_contents |-> <<>>, programming_languages |-> <<>>]
Snapshots == {OneFile, NoContent, NoFiles}

\* ------------------------------------------------------------ str helpers
RECURSIVE SplitBlank(_, _)
SplitBlank(s, cur) ==
  IF s = <<>> THEN <<cur>>
  ELSE IF Len(s) >= 2 /\ s[1] = NL /\ s[2] = NL
       THEN <<cur>> \o SplitBlank(SubSeq(s, 3, Len(s)), <<>>)
       ELSE SplitBlank(Tail(s), Append(cur, Head(s)))

\* str.split('\n\n')
split(s) == SplitBlank(s, <<>>)

Whitespace == {" ", NL, "\t"}

RECURSIVE lstrip(_, _)
lstrip(s, chars) ==
  IF s # <<>> /\ Head(s) \in chars THEN lstrip(Tail(s), chars) ELSE s

RECURSIVE rstrip(_, _)
rstrip(s, chars) ==
  IF s # <<>> /\ s[Len(s)] \in chars THEN rstrip(SubSeq(s, 1, Len(s) - 1), chars) ELSE s

\* str.strip(chars)
strip(s, chars) == rstrip(lstrip(s, chars), chars)

\* str.lower() of one token
lower(t) ==
  CASE t = "Dependency" -> "dependency"
    [] t = "Report" -> "report"
    [] t = "Looks" -> "looks"
    [] t = "Title" -> "title"
    [] t = "Python" -> "python"
    [] t = "Target" -> "target"
    [] OTHER -> t

\* needle in s.lower(), for a needle that is one word
contains_lower(s, needle) == \E i \in 1..Len(s) : lower(s[i]) = needle

\* needle in s, for a needle that is one token
contains(s, needle) == \E i \in 1..Len(s) : s[i] = needle

\* str.startswith of a one-token prefix
startswith(s, t) == s # <<>> /\ Head(s) = t

\* str.count of a one-token needle
RECURSIVE count(_, _)
count(s, t) ==
  IF s = <<>> THEN 0 ELSE (IF Head(s) = t THEN 1 ELSE 0) + count(Tail(s), t)

\* str.replace(old, new) of a one-token old by the tokens new
RECURSIVE replace(_, _, _)
replace(s, old, new) ==
  IF s = <<>> THEN <<>>
  ELSE (IF Head(s) = old THEN new ELSE <<Head(s)>>) \o replace(Tail(s), old, new)

RECURSIVE Flatten(_)
Flatten(ss) == IF ss = <<>> THEN <<>> ELSE Head(ss) \o Flatten(Tail(ss))

\* ------------------------------------------------------- the story blocks
Paragraph(text, style) ==
  [kind |-> "Paragraph", text |-> text, style |-> style, height |-> 0]
Spacer(h) == [kind |-> "Spacer", text |-> <<>>, style |-> "", height |-> h]
Table(style) == [kind |-> "Table", text |-> <<>>, style |-> style, height |-> 0]

\* one "<b>key:</b> value" paragraph per project_info entry
InfoBlocks(info) ==
  [i \in 1..Len(info) |->
     Paragraph(<<"<b>", info[i][1], ":", "</b>", " ">> \o info[i][2], "content_style")]

\* mutant: the heading keeps the blanks around its text
MutAnalysisSection(section) ==
  IF strip(section, Whitespace) = <<>> THEN <<>>
  ELSE << (IF \/ contains_lower(section, "dependency")
              \/ contains_lower(section, "package")
              \/ contains_lower(section, "vulnerabilities")
           THEN Paragraph(section, "dependency_style")
           ELSE IF startswith(section, "#")
           THEN Paragraph(<<"<b>">> \o strip(section, {"#"}) \o <<"</b>">>, "header_style")
           ELSE Paragraph(section, "content_style")),
          Spacer(10) >>

\* mutant: blank sections are rendered too
MutAnalysisSectionBlank(section) ==
  << (IF \/ contains_lower(section, "dependency")
         \/ contains_lower(section, "package")
         \/ contains_lower(section, "vulnerabilities")
      THEN Paragraph(section, "dependency_style")
      ELSE IF startswith(section, "#")
      THEN Paragraph(<<"<b>">> \o strip(strip(section, {"#"}), Whitespace) \o <<"</b>">>,
                     "header_style")
      ELSE Paragraph(section, "content_style")),
     Spacer(10) >>

\* mutant: the heading marker is tested before the keywords
MutAnalysisSectionHeadingFirst(section) ==
  IF strip(section, Whitespace) = <<>> THEN <<>>
  ELSE << (IF startswith(section, "#")
           THEN Paragraph(<<"<b>">> \o strip(strip(section, {"#"}), Whitespace) \o <<"</b>">>,
                          "header_style")
           ELSE IF \/ contains_lower(section, "dependency")
                   \/ contains_lower(section, "package")
                   \/ contains_lower(section, "vulnerabilities")
           THEN Paragraph(section, "dependency_style")
           ELSE Paragraph(section, "content_style")),
          Spacer(10) >>

\* the blocks save_analysis_to_pdf appends for one section
AnalysisSection(section) ==
  IF strip(section, Whitespace) = <<>> THEN <<>>
  ELSE << (IF \/ contains_lower(section, "dependency")
              \/ contains_lower(section, "package")
              \/ contains_lower(section, "vulnerabilities")
           THEN Paragraph(section, "dependency_style")
           ELSE IF startswith(section, "#")
           THEN Paragraph(<<"<b>">> \o strip(strip(section, {"#"}), Whitespace) \o <<"</b>">>,
                          "header_style")
           ELSE Paragraph(section, "content_style")),
          Spacer(10) >>

AnalysisResultBlocks(i, result) ==
  << Paragraph(<<"Analysis Iteration ", ToString(i)>>, "header_style"), Spacer(12) >>
  \o Flatten([k \in 1..Len(split(result)) |-> AnalysisSection(split(result)[k])])

\* the story save_analysis_to_pdf builds
AnalysisStory(analysis_results, project_info) ==
  << Paragraph(<<"Code Analysis Report">>, "title_style"), Spacer(20),
     Paragraph(<<"Dependency Analysis">>, "dependency_table_style"), Spacer(12),
     Table("dependency_data"), Spacer(20) >>
  \o InfoBlocks(project_info)
  \o << Spacer(20) >>
  \o Flatten([i \in 1..Len(analysis_results) |-> AnalysisResultBlocks(i, analysis_results[i])])

\* mutant: three markers still select the primary heading style
MutRecommendationSectionLevel(section) ==
  IF strip(section, Whitespace) = <<>> THEN <<>>
  ELSE << (IF contains(section, FENCE)
           THEN Paragraph(replace(section, FENCE, <<>>), "code_style")
           ELSE IF startswith(section, "#")
           THEN (IF count(section, "#") <= 3
                 THEN Paragraph(strip(strip(section, {"#"}), Whitespace), "header_style")
                 ELSE Paragraph(strip(strip(section, {"#"}), Whitespace), "subheader_style"))
           ELSE Paragraph(replace(section, NL, <<"<br/>">>), "content_style")),
          Spacer(10) >>

\* mutant: the heading marker is tested before the fence
MutRecommendationSectionOrder(section) ==
  IF strip(section, Whitespace) = <<>> THEN <<>>
  ELSE << (IF startswith(section, "#")
           THEN (IF count(section, "#") <= 2
                 THEN Paragraph(strip(strip(section, {"#"}), Whitespace), "header_style")
                 ELSE Paragraph(strip(strip(section, {"#"}), Whitespace), "subheader_style"))
           ELSE IF contains(section, FENCE)
           THEN Paragraph(replace(section, FENCE, <<>>), "code_style")
           ELSE Paragraph(replace(section, NL, <<"<br/>">>), "content_style")),
          Spacer(10) >>

\* the blocks save_recommendations_to_pdf appends for one section
RecommendationSection(section) ==
  IF strip(section, Whitespace) = <<>> THEN <<>>
  ELSE << (IF contains(section, FENCE)
           THEN Paragraph(replace(section, FENCE, <<>>), "code_style")
           ELSE IF startswith(section, "#")
           THEN (IF count(section, "#") <= 2
                 THEN Paragraph(strip(strip(section, {"#"}), Whitespace), "header_style")
                 ELSE Paragraph(strip(strip(section, {"#"}), Whitespace), "subheader_style"))
           ELSE Paragraph(replace(section, NL, <<"<br/>">>), "content_style")),
          Spacer(10) >>

RecommendationResultBlocks(i, result) ==
  << Paragraph(<<"Recommendation Iteration ", ToString(i)>>, "header_style"), Spacer(12) >>
  \o Flatten([k \in 1..Len(split(result)) |-> RecommendationSection(split(result)[k])])

\* the story save_recommendations_to_pdf builds
RecommendationStory(recommendations_results, project_info) ==
  << Paragraph(<<"Code Recommendations Report">>, "title_style"), Spacer(20) >>
  \o InfoBlocks(project_info)
  \o << Spacer(20) >>
  \o Flatten([i \in 1..Len(recommendations_results) |->
               RecommendationResultBlocks(i, recommendations_results[i])])

\* os.path.join(output_path, f"<reporttype>_{timestamp}.pdf")
ReportPath(dir, reporttype, timestamp) ==
  <<dir, "/", reporttype, "_", ToString(timestamp), ".pdf">>

\* save_analysis_to_pdf called at second now: the file it names and the story
\* it builds
save_analysis_to_pdf(analysis_results, project_info, now) ==
  [path |-> ReportPath("analysis_reports", "code_analysis", now),
   story |-> AnalysisStory(analysis_results, project_info)]

\* save_recommendations_to_pdf called at second now
save_recommendations_to_pdf(recommendations_results, project_info, now) ==
  [path |-> ReportPath("recommendation_reports", "recommendations", now),
   story |-> RecommendationStory(recommendations_results, project_info)]

\* the list a stage hands to its renderer: range(1, iteration) copies of the
\* final text, then the final text
RECURSIVE Copies(_, _)
Copies(n, text) == IF n <= 0 THEN <<>> ELSE <<text>> \o Copies(n - 1, text)
\* mutant: the loop over the earlier rounds starts at 0
MutCollectResults(iteration, final_text) ==
  Copies(iteration, final_text) \o <<final_text>>

CollectResults(iteration, final_text) ==
  Copies(iteration - 1, final_text) \o <<final_text>>

\* ------------------------------------------- the traversal of the fetcher
\* the directory names the traversal skips, as they are matched in a path
SkipMarkers ==
  { <<"target", "/">>, <<"build", "/">>, <<".git", "/">>, <<".idea", "/">>,
    <<"node_modules", "/">>, <<"venv", "/">> }

\* the files a repository may hold: the components of the path (a component is
\* a sequence of tokens), the lexer pygments guesses, and the content
RepoFiles ==
  << [path |-> << <<"a.py">> >>, lexer |-> "Python", content |-> "x = 1"],
     [path |-> << <<"src">>, <<"b.py">> >>, lexer |-> "Python", content |-> "y = 2"],
     [path |-> << <<"target">>, <<"c.java">> >>, lexer |-> "Java", content |-> "class C {}"],
     [path |-> << <<"src">>, <<"build">>, <<"d.rb">> >>, lexer |-> "Ruby", content |-> "puts 4"],
     [path |-> << <<"my", "venv">>, <<"e.js">> >>, lexer |-> "JavaScript", content |-> "let e"],
     [path |-> << <<"Target">>, <<"f.go">> >>, lexer |-> "Go", content |-> "package f"] >>

\* a repository: every file of RepoFiles is absent, a text file, or a file
\* whose bytes are not UTF-8
Repos == [1..Len(RepoFiles) -> {"absent", "text", "binary"}]

\* sorted() on the names and on the lexer names that occur (code point order)
SortedNames ==
  << <<"Target">>, <<"a.py">>, <<"b.py">>, <<"build">>, <<"c.java">>, <<"d.rb">>,
     <<"e.js">>, <<"f.go">>, <<"my", "venv">>, <<"src">>, <<"target">> >>
SortedLexers == <<"Go", "Java", "JavaScript", "Python", "Ruby">>

\* "/".join(parts): the path as the host reports it
RECURSIVE PathString(_)
PathString(parts) ==
  IF parts = <<>> THEN <<>>
  ELSE IF Len(parts) = 1 THEN parts[1]
  ELSE parts[1] \o <<"/">> \o PathString(Tail(parts))

\* sub in s
InStr(sub, s) ==
  \E i \in 1..(Len(s) - Len(sub) + 1) : SubSeq(s, i, i + Len(sub) - 1) = sub

\* s.lower()
LowerStr(s) == [i \in 1..Len(s) |-> lower(s[i])]

\* mutant: only a marker at the start of the path is skipped
MutSkipped(path) ==
  \E skip \in SkipMarkers :
    Len(path) >= Len(skip) /\ SubSeq(LowerStr(path), 1, Len(skip)) = skip

\* any(skip in file_content.path.lower() for skip in [...])
Skipped(path) == \E skip \in SkipMarkers : InStr(skip, LowerStr(path))

\* repo.get_contents(dir): the directories and files directly in dir, by name
get_contents(repo, dir) ==
  LET under == {i \in 1..Len(RepoFiles) :
                  /\ repo[i] # "absent"
                  /\ Len(RepoFiles[i].path) > Len(dir)
                  /\ SubSeq(RepoFiles[i].path, 1, Len(dir)) = dir}
      names == {RepoFiles[i].path[Len(dir) + 1] : i \in under}
      entry(name) ==
        IF \E i \in under : RepoFiles[i].path = Append(dir, name)
        THEN LET i == CHOOSE i \in under : RepoFiles[i].path = Append(dir, name)
             IN [path |-> Append(dir, name), type |-> "file", file |-> i]
        ELSE [path |-> Append(dir, name), type |-> "dir", file |-> 0]
      sorted == SelectSeq(SortedNames, LAMBDA n : n \in names)
  IN [k \in 1..Len(sorted) |-> entry(sorted[k])]

\* current_dict.setdefault(part, {}) along the parts: the directories a path
\* adds to file_tree
Dirs(parts) == {[path |-> SubSeq(parts, 1, n), kind |-> "dir"] : n \in 1..Len(parts)}

\* the while loop over contents: acc holds file_tree (its nodes), file_contents
\* and programming_languages
RECURSIVE Walk(_, _, _)
Walk(repo, contents, acc) ==
  IF contents = <<>> THEN acc
  ELSE LET file_content == Head(contents)
           rest == Tail(contents)
       IN IF Skipped(PathString(file_content.path))
          THEN Walk(repo, rest, acc)
          ELSE IF file_content.type = "dir"
          THEN Walk(repo, rest \o get_contents(repo, file_content.path),
                    [acc EXCEPT !.file_tree = @ \cup Dirs(file_content.path)])
          ELSE IF repo[file_content.file] = "binary"
          THEN Walk(repo, rest, acc)
          ELSE Walk(repo, rest,
                    [file_tree |-> acc.file_tree
                       \cup Dirs(SubSeq(file_content.path, 1, Len(file_content.path) - 1))
                       \cup {[path |-> file_content.path, kind |-> "file"]},
                     file_contents |-> Append(acc.file_contents,
                       <<"File: ">> \o PathString(file_content.path)
                         \o <<NL, "Content:", NL, RepoFiles[file_content.file].content, NL>>),
                     programming_languages |-> acc.programming_languages
                       \cup {RepoFiles[file_content.file].lexer}])

\* format_file_tree(file_tree[parent], indent)
RECURSIVE format_file_tree(_, _, _)
format_file_tree(file_tree, parent, indent) ==
  LET keys == SelectSeq(SortedNames,
                LAMBDA n : \E node \in file_tree : node.path = Append(parent, n))
      line(key) ==
        IF [path |-> Append(parent, key), kind |-> "file"] \in file_tree
        THEN indent \o <<"|-- ">> \o key \o <<NL>>
        ELSE indent \o <<"|-- ">> \o key \o <<"/", NL>>
               \o format_file_tree(file_tree, Append(parent, key), indent \o <<"|   ">>)
  IN Flatten([k \in 1..Len(keys) |-> line(keys[k])])

\* sep.join(items)
RECURSIVE join(_, _)
join(sep, items) ==
  IF items = <<>> THEN <<>>
  ELSE IF Len(items) = 1 THEN items[1]
  ELSE items[1] \o sep \o join(sep, Tail(items))

\* the snapshot a successful attempt of gather_repo_content_node returns
Snapshot(repo) ==
  LET acc == Walk(repo, get_contents(repo, <<>>),
                  [file_tree |-> {}, file_contents |-> <<>>, programming_languages |-> {}])
      languages == SelectSeq(SortedLexers, LAMBDA l : l \in acc.programming_languages)
  IN [file_tree |-> format_file_tree(acc.file_tree, <<>>, <<>>),
      file_contents |-> join(<<NL>>, acc.file_contents),
      programming_languages |-> join(<<", ">>, [k \in 1..Len(languages) |-> <<languages[k]>>])]

\* ------------------------------------------------------------------ state
VARIABLES
  token,     \* whether GITHUB_TOKEN is set in the environment
  pc,        \* where the process is: "boot" (before the import of
             \* agentic_workflow), "startup_error", "idle", a node of the outer graph,
             \* "analysis_agent" / "recommendation_agent" (inside an inner graph),
             \* "returned"
  resume,    \* the resume argument of the run
  state,     \* the channel values of the outer graph (AgenticWorkflowState)
  ret,       \* what run_agentic_workflow returned: "pending", "None" or "state"
  attempt,   \* loop variable of the fetcher
  host,      \* what the host answered on each attempt of the fetcher, in order
  fetched,   \* what run_discovery_agent returned (None before it did)
  sleeps,    \* the time.sleep calls of the fetcher, in order
  node,      \* next node of the running inner graph, "" outside one
  astate,    \* channel values of the analysis graph (AnalysisState)
  rstate,    \* channel values of the recommendation graph (RecommendationState)
  genCalls,  \* every generation call made, in order
  reports,   \* every report rendered, in order
  entered,   \* the nodes of the outer graph entered, in order
  clock,     \* wall clock (seconds) at the last rendering
  io_error,  \* whether writing a report failed
  printed,   \* the status lines main printed after the workflow returned
  draft,     \* the text handed to the two renderers when they are run on their own
  renders,   \* what the renderers built from draft, one entry per run
  repo       \* the repository the fetcher is run on when it is run on its own

vars == <<token, pc, resume, state, ret, attempt, host, fetched, sleeps, node, astate, rstate,
          genCalls, reports, entered, clock, io_error, printed, draft, renders, repo>>

\* initial_state of run_agentic_workflow; the normalised repo_url is one opaque
\* token, no node reads more of it than the fetcher does
InitialWorkflowState(r) ==
  [repo_url |-> <<"repo">>, file_tree |-> <<>>, file_contents |-> <<>>,
   programming_languages |-> <<>>, analysis_result |-> <<>>,
   recommendations |-> <<>>, iteration |-> IF r THEN 1 ELSE 0, pdf_path |-> <<>>]

\* initial_state of run_code_analysis_agent
InitialAnalysisState(file_tree, file_contents, programming_language) ==
  [file_tree |-> file_tree, file_contents |-> file_contents,
   programming_language |-> programming_language, analysis_result |-> <<>>,
   iteration |-> 0, human_input |-> <<>>]

\* initial_state of run_recommendation_agent
InitialRecommendationState(file_tree, file_contents, programming_languages, analysis_result) ==
  [file_tree |-> file_tree, file_contents |-> file_contents,
   programming_languages |-> programming_languages, analysis_result |-> analysis_result,
   recommendations |-> <<>>, iteration |-> 0]

NoAnalysisState == InitialAnalysisState(<<>>, <<>>, <<>>)
NoRecommendationState == InitialRecommendationState(<<>>, <<>>, <<>>, <<>>)

\* a node return value: None, or a dict
ReturnNone(st) == [none |-> TRUE, value |-> st]
ReturnDict(st) == [none |-> FALSE, value |-> st]

\* the graph writes the returned dict to the channels; None writes nothing
Update(st, returned) == IF returned.none THEN st ELSE returned.value

\* mutant: an edge back from the last node
MutEdge(n) ==
  CASE n = "run_discovery" -> "run_code_analysis"
    [] n = "run_code_analysis" -> "run_recommendation"
    [] n = "run_recommendation" -> "run_code_analysis"

\* the edges of the outer graph
Edge(n) ==
  CASE n = "run_discovery" -> "run_code_analysis"
    [] n = "run_code_analysis" -> "run_recommendation"
    [] n = "run_recommendation" -> END

\* mutant: the except clause hands back the state it has
MutWorkflowExcept == "state"

\* the value the except clause of run_agentic_workflow returns
WorkflowExcept == "None"

\* the node n of the outer graph is done: follow its edge; at END invoke
\* returns the channel values and run_agentic_workflow returns them
Leave(n) ==
  IF Edge(n) = END
  THEN pc' = "returned" /\ ret' = "state"
  ELSE pc' = Edge(n) /\ ret' = ret

\* an exception leaves graph.invoke and is caught by run_agentic_workflow
Raise == pc' = "returned" /\ ret' = WorkflowExcept

\* nothing has run yet
Fresh ==
  /\ io_error = FALSE
  /\ printed = <<>>
  /\ renders = <<>>
  /\ resume = FALSE
  /\ state = InitialWorkflowState(FALSE)
  /\ ret = "pending"
  /\ attempt = 0
  /\ host = <<>>
  /\ fetched = ReturnNone(NoFiles)
  /\ sleeps = <<>>
  /\ node = ""
  /\ astate = NoAnalysisState
  /\ rstate = NoRecommendationState
  /\ genCalls = <<>>
  /\ reports = <<>>
  /\ entered = <<>>
  /\ clock = 0

Init ==
  /\ token \in BOOLEAN
  /\ pc = "boot"
  /\ draft = <<>>
  /\ repo = [i \in 1..Len(RepoFiles) |-> "absent"]
  /\ Fresh

\* mutant: the token check dropped
MutTokenMissing(tok) == FALSE

\* if not github_token, at the import of agentic_workflow
TokenMissing(tok) == ~tok

\* main.py imports agentic_workflow: its module body raises ValueError when
\* the token is not set, and the process ends before main is called
import_agentic_workflow ==
  /\ pc = "boot"
  /\ pc' = IF TokenMissing(token) THEN "startup_error" ELSE "idle"
  /\ UNCHANGED <<token, resume, state, ret, attempt, host, fetched, sleeps, node, astate,
                 rstate, genCalls, reports, entered, clock, io_error, printed, draft, renders, repo>>

\* run_agentic_workflow(repo_url, resume=r) up to the entry point of the graph
run_agentic_workflow(r) ==
  /\ pc = "idle"
  /\ resume' = r
  /\ state' = InitialWorkflowState(r)
  /\ pc' = "run_discovery"
  /\ entered' = Append(entered, "run_discovery")
  /\ attempt' = 0
  /\ UNCHANGED <<repo, draft, renders, token, printed, io_error>>
  /\ UNCHANGED <<ret, host, fetched, sleeps, node, astate, rstate, genCalls, reports, clock>>

\* ------------------------------------------------------------- discovery
\* run_discovery after run_discovery_agent returned result
run_discovery(st, result) ==
  IF result.none
  THEN ReturnNone(st)
  ELSE LET st2 == [st EXCEPT !.file_tree = result.value.file_tree,
                             !.file_contents = result.value.file_contents,
                             !.programming_languages = result.value.programming_languages]
       IN IF st2.file_contents = <<>> THEN ReturnNone(st) ELSE ReturnDict(st2)

\* gather_repo_content_node returned: the rest of the node run_discovery
DiscoveryDone(result) ==
  /\ fetched' = result
  /\ state' = Update(state, run_discovery(state, result))
  /\ Leave("run_discovery")

\* wait_time = 2 ** attempt
Backoff(a) == 2 ^ a

\* mutant: the last attempt is retried too
MutRetried(a) == a < max_retries

\* whether a GithubException on attempt a is retried
Retried(a) == a < max_retries - 1

\* an attempt that finds the rate limit used up: sleep until the reset, continue
GatherRateLimited(wait) ==
  /\ pc = "run_discovery"
  /\ attempt < max_retries
  /\ host' = Append(host, "rate_limited")
  /\ sleeps' = Append(sleeps, [kind |-> "rate_limit", seconds |-> wait])
  /\ attempt' = attempt + 1
  /\ IF attempt + 1 < max_retries
     THEN UNCHANGED <<pc, ret, state, fetched>>
     ELSE DiscoveryDone(ReturnNone(NoFiles))
  /\ UNCHANGED <<repo, draft, renders, token, printed, io_error>>
  /\ UNCHANGED <<resume, node, astate, rstate, genCalls, reports, entered, clock>>

\* an attempt on which the host API raises GithubException
GatherGithubException ==
  /\ pc = "run_discovery"
  /\ attempt < max_retries
  /\ host' = Append(host, "github_exception")
  /\ IF Retried(attempt)
     THEN /\ sleeps' = Append(sleeps, [kind |-> "backoff", seconds |-> Backoff(attempt)])
          /\ attempt' = attempt + 1
          /\ UNCHANGED <<pc, ret, state, fetched>>
     ELSE /\ DiscoveryDone(ReturnNone(NoFiles))
          /\ UNCHANGED <<sleeps, attempt>>
  /\ UNCHANGED <<repo, draft, renders, token, printed, io_error>>
  /\ UNCHANGED <<resume, node, astate, rstate, genCalls, reports, entered, clock>>

\* any other exception inside the fetcher: the outer except returns None
GatherError ==
  /\ pc = "run_discovery"
  /\ attempt < max_retries
  /\ host' = Append(host, "error")
  /\ DiscoveryDone(ReturnNone(NoFiles))
  /\ UNCHANGED <<repo, draft, renders, token, printed, io_error>>
  /\ UNCHANGED <<resume, attempt, sleeps, node, astate, rstate, genCalls, reports,
                 entered, clock>>

\* an attempt that reads the repository and asks the model for its summary
GatherSuccess(snapshot, ok) ==
  /\ pc = "run_discovery"
  /\ attempt < max_retries
  /\ host' = Append(host, "ok")
  /\ genCalls' = Append(genCalls,
       [stage |-> "discovery", node |-> "gather_repo_content_node", ok |-> ok,
        input |-> snapshot.file_contents, text |-> <<>>])
  /\ DiscoveryDone(IF ok THEN ReturnDict(snapshot) ELSE ReturnNone(NoFiles))
  /\ UNCHANGED <<repo, draft, renders, token, printed, io_error>>
  /\ UNCHANGED <<resume, attempt, sleeps, node, astate, rstate, reports, entered, clock>>

\* -------------------------------------------------------------- analysis
\* mutant: the ceiling test lets one more reflection through
MutShouldContinueAnalysis(st) ==
  IF st.iteration > AnalysisCeiling + 1 THEN END ELSE "reflect_on_analysis"

\* should_continue of code_analysis_agent.py
should_continue_analysis(st) ==
  IF st.iteration >= AnalysisCeiling THEN END ELSE "reflect_on_analysis"

\* mutant: a node that counts twice
MutNextIteration(i) == i + 2

\* "iteration": state["iteration"] + 1
NextIteration(i) == i + 1

\* mutant: the guard of run_code_analysis dropped
MutSkipAnalysis(st) == FALSE

\* the guard of run_code_analysis: no code found, skip the stage
SkipAnalysis(st) == st.file_contents = <<>>

\* the guard of run_recommendation: no analysis result, skip the stage
SkipRecommendation(st) == st.analysis_result = <<>>

\* mutant: the node copies the counter of the analysis agent too
MutRunCodeAnalysisCounter(st, final_state) ==
  ReturnDict([st EXCEPT !.analysis_result = final_state.analysis_result,
                        !.iteration = final_state.iteration])

\* mutant: the analysis text lands in the wrong field
MutRunCodeAnalysis(st, final_state) ==
  ReturnDict([st EXCEPT !.file_contents = final_state.analysis_result])

\* run_code_analysis after run_code_analysis_agent returned final_state
\* (which has no key pdf_path)
run_code_analysis(st, final_state) ==
  ReturnDict([st EXCEPT !.analysis_result = final_state.analysis_result])

\* the node run_code_analysis up to graph.invoke of the analysis graph
RunCodeAnalysis ==
  /\ pc = "run_code_analysis"
  /\ entered' = Append(entered, "run_code_analysis")
  /\ IF SkipAnalysis(state)
     THEN /\ Leave("run_code_analysis")
          /\ UNCHANGED <<node, astate>>
     ELSE /\ pc' = "analysis_agent"
          /\ node' = "analyze_code"
          /\ astate' = InitialAnalysisState(state.file_tree, state.file_contents,
                                            state.programming_languages)
          /\ ret' = ret
  /\ UNCHANGED <<repo, draft, renders, token, printed, io_error>>
  /\ UNCHANGED <<host, fetched, resume, state, attempt, sleeps, rstate, genCalls, reports, clock>>

\* the node analyze_code; ok = FALSE: llm.invoke raises
analyze_code(text, ok) ==
  /\ pc = "analysis_agent"
  /\ node = "analyze_code"
  /\ genCalls' = Append(genCalls,
       [stage |-> "analysis", node |-> "analyze_code", ok |-> ok,
        input |-> astate.file_contents, text |-> text])
  /\ IF ok
     THEN /\ astate' = [astate EXCEPT !.analysis_result = text,
                                      !.iteration = NextIteration(astate.iteration)]
          /\ node' = "reflect_on_analysis"
          /\ UNCHANGED <<pc, ret>>
     ELSE /\ Raise
          /\ UNCHANGED <<astate, node>>
  /\ UNCHANGED <<repo, draft, renders, token, printed, io_error>>
  /\ UNCHANGED <<host, fetched, resume, state, attempt, sleeps, rstate, reports, entered, clock>>

\* the node reflect_on_analysis and its conditional edge
reflect_on_analysis(text, ok) ==
  /\ pc = "analysis_agent"
  /\ node = "reflect_on_analysis"
  /\ genCalls' = Append(genCalls,
       [stage |-> "analysis", node |-> "reflect_on_analysis", ok |-> ok,
        input |-> astate.file_contents, text |-> text])
  /\ IF ok
     THEN /\ astate' = [astate EXCEPT !.analysis_result = text,
                                      !.iteration = NextIteration(astate.iteration)]
          /\ node' = should_continue_analysis(astate')
          /\ UNCHANGED <<pc, ret>>
     ELSE /\ Raise
          /\ UNCHANGED <<astate, node>>
  /\ UNCHANGED <<repo, draft, renders, token, printed, io_error>>
  /\ UNCHANGED <<host, fetched, resume, state, attempt, sleeps, rstate, reports, entered, clock>>

\* project_info of run_code_analysis_agent, its date read at second date
AnalysisInfo(final_state, date) ==
  << <<"Programming Language", final_state.programming_language>>,
     <<"Analysis Date", <<ToString(date)>> >>,
     <<"Total Iterations", <<ToString(final_state.iteration)>> >> >>

\* the report save_analysis_to_pdf writes at second now, with the metadata
\* run_code_analysis_agent built at second date
AnalysisReport(final_state, date, now) ==
  LET analysis_results == CollectResults(final_state.iteration, final_state.analysis_result)
      pdf == save_analysis_to_pdf(analysis_results, AnalysisInfo(final_state, date), now)
  IN [stage |-> "analysis", path |-> pdf.path, texts |-> analysis_results,
      story |-> pdf.story]

\* the analysis graph reached END: the rest of run_code_analysis_agent and of
\* the node run_code_analysis; written = FALSE: the PDF cannot be written
\* the clock is read twice, at second date for the metadata and at second
\* now, inside the renderer, for the file name
FinishAnalysis(date, now, written) ==
  /\ pc = "analysis_agent"
  /\ node = END
  /\ io_error' = ~written
  /\ clock' = now
  /\ node' = ""
  /\ IF written
     THEN /\ reports' = Append(reports, AnalysisReport(astate, date, now))
          /\ state' = Update(state, run_code_analysis(state, astate))
          /\ Leave("run_code_analysis")
     ELSE /\ Raise
          /\ UNCHANGED <<reports, state>>
  /\ UNCHANGED <<repo, draft, renders, token, printed>>
  /\ UNCHANGED <<host, fetched, resume, attempt, sleeps, astate, rstate, genCalls, entered>>

\* -------------------------------------------------------- recommendation
\* mutant: the ceiling test lets one more reflection through
MutShouldContinueRecommendation(st) ==
  IF st.iteration > RecommendationCeiling THEN END ELSE "reflect_on_recommendations"

\* should_continue of recommendation_agent.py
should_continue_recommendation(st) ==
  IF st.iteration >= RecommendationCeiling THEN END ELSE "reflect_on_recommendations"

\* run_recommendation after run_recommendation_agent returned
\* {"pdf_path", "state"}: the dict has no key recommendations, has pdf_path
run_recommendation(st, recommendation_result) ==
  ReturnNone([st EXCEPT !.recommendations = <<>>,
                        !.pdf_path = recommendation_result.pdf_path])

\* the node run_recommendation up to graph.invoke of the recommendation graph
RunRecommendation ==
  /\ pc = "run_recommendation"
  /\ entered' = Append(entered, "run_recommendation")
  /\ IF SkipRecommendation(state)
     THEN /\ Leave("run_recommendation")
          /\ UNCHANGED <<node, rstate>>
     ELSE /\ pc' = "recommendation_agent"
          /\ node' = "generate_recommendations"
          /\ rstate' = InitialRecommendationState(state.file_tree, state.file_contents,
                         state.programming_languages, state.analysis_result)
          /\ ret' = ret
  /\ UNCHANGED <<repo, draft, renders, token, printed, io_error>>
  /\ UNCHANGED <<host, fetched, resume, state, attempt, sleeps, astate, genCalls, reports, clock>>

\* the node generate_recommendations
generate_recommendations(text, ok) ==
  /\ pc = "recommendation_agent"
  /\ node = "generate_recommendations"
  /\ genCalls' = Append(genCalls,
       [stage |-> "recommendation", node |-> "generate_recommendations", ok |-> ok,
        input |-> rstate.file_contents, text |-> text])
  /\ IF ok
     THEN /\ rstate' = [rstate EXCEPT !.recommendations = text,
                                      !.iteration = NextIteration(rstate.iteration)]
          /\ node' = "reflect_on_recommendations"
          /\ UNCHANGED <<pc, ret>>
     ELSE /\ Raise
          /\ UNCHANGED <<rstate, node>>
  /\ UNCHANGED <<repo, draft, renders, token, printed, io_error>>
  /\ UNCHANGED <<host, fetched, resume, state, attempt, sleeps, astate, reports, entered, clock>>

\* the node reflect_on_recommendations and its conditional edge
reflect_on_recommendations(text, ok) ==
  /\ pc = "recommendation_agent"
  /\ node = "reflect_on_recommendations"
  /\ genCalls' = Append(genCalls,
       [stage |-> "recommendation", node |-> "reflect_on_recommendations", ok |-> ok,
        input |-> rstate.file_contents, text |-> text])
  /\ IF ok
     THEN /\ rstate' = [rstate EXCEPT !.recommendations = text,
                                      !.iteration = NextIteration(rstate.iteration)]
          /\ node' = should_continue_recommendation(rstate')
          /\ UNCHANGED <<pc, ret>>
     ELSE /\ Raise
          /\ UNCHANGED <<rstate, node>>
  /\ UNCHANGED <<repo, draft, renders, token, printed, io_error>>
  /\ UNCHANGED <<host, fetched, resume, state, attempt, sleeps, astate, reports, entered, clock>>

\* project_info of run_recommendation_agent, its date read at second date
RecommendationInfo(final_state, date) ==
  << <<"Programming Languages", final_state.programming_languages>>,
     <<"Generation Date", <<ToString(date)>> >>,
     <<"Total Iterations", <<ToString(final_state.iteration)>> >> >>

\* the report save_recommendations_to_pdf writes at second now, with the
\* metadata run_recommendation_agent built at second date
RecommendationReport(final_state, date, now) ==
  LET recommendations_results ==
        CollectResults(final_state.iteration, final_state.recommendations)
      pdf == save_recommendations_to_pdf(recommendations_results,
                                         RecommendationInfo(final_state, date), now)
  IN [stage |-> "recommendation", path |-> pdf.path, texts |-> recommendations_results,
      story |-> pdf.story]

\* the recommendation graph reached END: the rest of run_recommendation_agent
\* and of the node run_recommendation
\* the clock is read twice, at second date for the metadata and at second
\* now, inside the renderer, for the file name
FinishRecommendation(date, now, written) ==
  /\ pc = "recommendation_agent"
  /\ node = END
  /\ io_error' = ~written
  /\ clock' = now
  /\ node' = ""
  /\ IF written
     THEN /\ reports' = Append(reports, RecommendationReport(rstate, date, now))
          /\ state' = Update(state, run_recommendation(state,
                         [pdf_path |-> RecommendationReport(rstate, date, now).path,
                          state |-> rstate]))
          /\ Leave("run_recommendation")
     ELSE /\ Raise
          /\ UNCHANGED <<reports, state>>
  /\ UNCHANGED <<repo, draft, renders, token, printed>>
  /\ UNCHANGED <<host, fetched, resume, attempt, sleeps, astate, rstate, genCalls, entered>>

\* ------------------------------------------------------------------ main
\* the lines main prints once run_agentic_workflow returned: result is read
\* before it is tested, so None raises TypeError into the outer except; the
\* mail is not sent (success stays False)
MainOutput(returned, st) ==
  IF returned = "None"
  THEN << <<"Error: ", "'NoneType' object is not subscriptable">> >>
  ELSE << <<"Analysis saved to: ">> \o st.pdf_path,
          <<"Analysis saved to: ">> \o st.pdf_path,
          <<"Failed to send email">> >>

\* main after run_agentic_workflow returned
main ==
  /\ pc = "returned"
  /\ printed = <<>>
  /\ printed' = MainOutput(ret, state)
  /\ UNCHANGED <<token, pc, resume, state, ret, attempt, host, fetched, sleeps, node,
                 astate, rstate, genCalls, reports, entered, clock, io_error, draft, renders, repo>>

\* ------------------------------------------------------- specification
Next ==
  \/ import_agentic_workflow
  \/ \E r \in BOOLEAN : run_agentic_workflow(r)
  \/ \E wait \in 1..MaxWait : GatherRateLimited(wait)
  \/ GatherGithubException
  \/ GatherError
  \/ \E snapshot \in Snapshots, ok \in BOOLEAN : GatherSuccess(snapshot, ok)
  \/ RunCodeAnalysis
  \/ \E text \in Texts, ok \in BOOLEAN : analyze_code(IF ok THEN text ELSE <<>>, ok)
  \/ \E text \in Texts, ok \in BOOLEAN : reflect_on_analysis(IF ok THEN text ELSE <<>>, ok)
  \/ \E date \in clock..MaxClock, written \in BOOLEAN :
       \E now \in date..MaxClock : FinishAnalysis(date, now, written)
  \/ RunRecommendation
  \/ \E text \in Texts, ok \in BOOLEAN :
       generate_recommendations(IF ok THEN text ELSE <<>>, ok)
  \/ \E text \in Texts, ok \in BOOLEAN :
       reflect_on_recommendations(IF ok THEN text ELSE <<>>, ok)
  \/ \E date \in clock..MaxClock, written \in BOOLEAN :
       \E now \in date..MaxClock : FinishRecommendation(date, now, written)
  \/ main

Spec == Init /\ [][Next]_vars

\* the program is one sequential thread: a step that can be taken is taken
LiveSpec == Init /\ [][Next]_vars /\ WF_vars(Next)

\* ------------------------------------------- the renderers on their own
\* the tokens of the texts rendered
RenderTokens == {"#", " ", NL, FENCE, "Dependency", "package", "Title"}

\* the segment "### Title"
TitleSegment == <<"#", "#", "#", " ", "Title">>

Seqs(S, n) == UNION {[1..k -> S] : k \in 0..n}

\* the texts rendered: up to MaxTextLen tokens, alone or after "### Title"
RenderTexts ==
  Seqs(RenderTokens, MaxTextLen) \cup {TitleSegment \o s : s \in Seqs(RenderTokens, MaxTextLen)}

\* the metadata of the renderings
RenderInfo == << <<"Total Iterations", <<"1">> >> >>

RenderInit ==
  /\ token = TRUE
  /\ pc = "render"
  /\ draft \in RenderTexts
  /\ repo = [i \in 1..Len(RepoFiles) |-> "absent"]
  /\ Fresh

\* one run of both renderers on (<<draft>>, RenderInfo) at second now
Render(now) ==
  /\ pc = "render"
  /\ Len(renders) < MaxRenders
  /\ clock' = now
  /\ renders' = Append(renders,
       [now |-> now,
        analysis |-> save_analysis_to_pdf(<<draft>>, RenderInfo, now),
        recommendation |-> save_recommendations_to_pdf(<<draft>>, RenderInfo, now)])
  /\ UNCHANGED <<token, pc, resume, state, ret, attempt, host, fetched, sleeps, node,
                 astate, rstate, genCalls, reports, entered, io_error, printed, draft, repo>>

RenderNext == \E now \in clock..MaxClock : Render(now)

RenderSpec == RenderInit /\ [][RenderNext]_vars

\* --------------------------------------------- the fetcher on its own
FetchInit ==
  /\ token = TRUE
  /\ pc = "fetch"
  /\ draft = <<>>
  /\ repo \in Repos
  /\ Fresh

\* one attempt of gather_repo_content_node on repo that meets no host error;
\* ok = FALSE: model.invoke raises and the outer except returns None
Fetch(ok) ==
  /\ pc = "fetch"
  /\ pc' = "fetched"
  /\ host' = Append(host, "ok")
  /\ genCalls' = Append(genCalls,
       [stage |-> "discovery", node |-> "gather_repo_content_node", ok |-> ok,
        input |-> Snapshot(repo).file_contents, text |-> <<>>])
  /\ fetched' = IF ok THEN ReturnDict(Snapshot(repo)) ELSE ReturnNone(NoFiles)
  /\ UNCHANGED <<token, resume, state, ret, attempt, sleeps, node, astate, rstate,
                 reports, entered, clock, io_error, printed, draft, renders, repo>>

FetchNext == \E ok \in BOOLEAN : Fetch(ok)

FetchSpec == FetchInit /\ [][FetchNext]_vars

\* ------------------------------------------------------------ the claims
Range(q) == {q[i] : i \in 1..Len(q)}
CallsOf(stage) == SelectSeq(genCalls, LAMBDA c : c.stage = stage)
AfterDiscovery == pc \notin {"boot", "startup_error", "idle", "run_discovery"}

\* Discovery yielded no snapshot, or one whose file_contents is empty
DiscoveryFailed ==
  AfterDiscovery /\ (fetched.none \/ fetched.value.file_contents = <<>>)

\* C1: in a run in which Discovery yields no snapshot or a snapshot with empty
\* file_contents, no generation call of the Analysis stage and none of the
\* Recommendation stage is ever made.
C1_NoGenerationAfterFailedDiscovery ==
  DiscoveryFailed => CallsOf("analysis") = <<>> /\ CallsOf("recommendation") = <<>>

\* the run went through all three nodes after a fetch that found no contents
C1_Witness ==
  /\ pc = "returned"
  /\ ~fetched.none /\ fetched.value.file_contents = <<>>
  /\ entered = <<"run_discovery", "run_code_analysis", "run_recommendation">>
  /\ CallsOf("analysis") = <<>>

\* C2: whenever the Discovery stage fails, run_agentic_workflow returns None
\* and never a WorkflowState record.
C2_FailedDiscoveryReturnsNone ==
  (DiscoveryFailed /\ pc = "returned") => ret = "None"

\* a generation call of the Analysis or Recommendation stage raised
StageCallRaised(i) == genCalls[i].stage # "discovery" /\ ~genCalls[i].ok

\* C3: if the generation client raises during the Analysis or the
\* Recommendation stage, run_agentic_workflow returns None (no partial state)
\* and the raising call is the last generation call of the run.
C3_GenerationErrorFailsWorkflow ==
  \A i \in 1..Len(genCalls) :
    StageCallRaised(i) => i = Len(genCalls) /\ pc = "returned" /\ ret = "None"

\* the reflection call of the Recommendation stage raised, after four calls
\* that returned
C3_Witness ==
  /\ Len(genCalls) = 5
  /\ StageCallRaised(5)
  /\ genCalls[5].node = "reflect_on_recommendations"
  /\ ret = "None"

\* every generation call of the stage returned
AllReturned(stage) == \A c \in Range(CallsOf(stage)) : c.ok

\* C4: each generation call of a stage raises the iteration counter of the
\* stage by exactly 1: as long as the calls return, the counter equals the
\* number of generation calls the stage made, also when the stage ends.
C4_CounterCountsGenerationCalls ==
  /\ AllReturned("analysis") => astate.iteration = Len(CallsOf("analysis"))
  /\ AllReturned("recommendation") => rstate.iteration = Len(CallsOf("recommendation"))

\* both stages ended, each after two calls
C4_Witness ==
  /\ pc = "returned" /\ ret = "state"
  /\ Len(CallsOf("analysis")) = 2 /\ astate.iteration = 2
  /\ Len(CallsOf("recommendation")) = 2 /\ rstate.iteration = 2

\* the inner graph of the stage reached END
AnalysisLoopDone ==
  \/ pc = "analysis_agent" /\ node = END
  \/ \E r \in Range(reports) : r.stage = "analysis"
RecommendationLoopDone ==
  \/ pc = "recommendation_agent" /\ node = END
  \/ \E r \in Range(reports) : r.stage = "recommendation"

\* the nodes that made the generation calls of the stage, in order
NodesCalled(stage) == [i \in 1..Len(CallsOf(stage)) |-> CallsOf(stage)[i].node]

\* C5 as stated: in a stage run that completes, the initial generation call
\* is followed by exactly 1 reflection round in the Analysis stage and by
\* exactly 2 reflection rounds in the Recommendation stage.
C5_Original ==
  /\ AnalysisLoopDone =>
       NodesCalled("analysis") = <<"analyze_code", "reflect_on_analysis">>
  /\ RecommendationLoopDone =>
       NodesCalled("recommendation") =
         <<"generate_recommendations", "reflect_on_recommendations",
           "reflect_on_recommendations">>

\* C5 amended: in a stage run that completes, the initial generation call is
\* followed by exactly 1 reflection round, in the Analysis stage and in the
\* Recommendation stage alike.
C5_OneReflectionPerStage ==
  /\ AnalysisLoopDone =>
       NodesCalled("analysis") = <<"analyze_code", "reflect_on_analysis">>
  /\ RecommendationLoopDone =>
       NodesCalled("recommendation") =
         <<"generate_recommendations", "reflect_on_recommendations">>

\* the Recommendation stage left its loop after its reflection round
C5_Witness ==
  /\ pc = "recommendation_agent" /\ node = END
  /\ Len(CallsOf("recommendation")) = 2
  /\ AnalysisLoopDone

\* C6 as stated: a stage leaves its reflection loop only with its counter
\* equal to the ceiling its should_continue checks (1 for Analysis, 2 for
\* Recommendation), and no counter ever exceeds its ceiling.
C6_Original ==
  /\ astate.iteration <= AnalysisCeiling
  /\ rstate.iteration <= RecommendationCeiling
  /\ AnalysisLoopDone => astate.iteration = AnalysisCeiling
  /\ RecommendationLoopDone => rstate.iteration = RecommendationCeiling

\* C6 amended: a stage leaves its reflection loop only with its counter at or
\* above the ceiling its should_continue checks: the Recommendation stage at
\* its ceiling 2, the Analysis stage at 2, one above its ceiling 1 (the check
\* first runs after the second call); no counter ever exceeds these values.
C6_CounterAtExit ==
  /\ astate.iteration <= AnalysisCeiling + 1
  /\ rstate.iteration <= RecommendationCeiling
  /\ AnalysisLoopDone => astate.iteration = AnalysisCeiling + 1
  /\ RecommendationLoopDone => rstate.iteration = RecommendationCeiling

\* the Analysis stage left its loop, one above its ceiling
C6_Witness ==
  /\ pc = "analysis_agent" /\ node = END
  /\ astate.iteration > AnalysisCeiling

\* C7: the list of texts a stage hands to the renderer holds, for every k,
\* the text returned by the k-th generation call of the stage.
C7_RecordsAreRoundOutputs ==
  \A r \in Range(reports) :
    r.texts = [k \in 1..Len(CallsOf(r.stage)) |-> CallsOf(r.stage)[k].text]

\* the end-to-end scenario: the one-file snapshot, a generation service that
\* answers ReportText, the analysis report rendered
Scenario(r) ==
  /\ r.stage = "analysis"
  /\ ~fetched.none /\ fetched.value = OneFile
  /\ \A c \in Range(CallsOf("analysis")) : c.ok /\ c.text = ReportText

\* what the scenario renders for the k-th record: the iteration header, then
\* the heading "Report" and the body "Looks fine.", a spacer after each
ScenarioBlocks(k) ==
  << Paragraph(<<"Analysis Iteration ", ToString(k)>>, "header_style"), Spacer(12),
     Paragraph(<<"<b>", "Report", "</b>">>, "header_style"), Spacer(10),
     Paragraph(<<"Looks", " ", "fine.">>, "content_style"), Spacer(10) >>

\* the last n blocks of a story
LastBlocks(story, n) == SubSeq(story, Len(story) - n + 1, Len(story))

\* C8 as stated: in the scenario the Analysis stage completes after one
\* generation round with exactly one record and counter 1, rendered as the
\* heading "Report" then the body "Looks fine.".
C8_Original ==
  \A r \in Range(reports) : Scenario(r) =>
    /\ Len(CallsOf("analysis")) = 1
    /\ astate.iteration = 1
    /\ Len(r.texts) = 1
    /\ LastBlocks(r.story, Len(ScenarioBlocks(1))) = ScenarioBlocks(1)

\* C8 amended: in the scenario the Analysis stage completes after two
\* generation rounds (the initial call and one reflection) with exactly two
\* records and counter 2, each record rendered as the heading "Report" then
\* the body "Looks fine.".
C8_ScenarioTwoRounds ==
  \A r \in Range(reports) : Scenario(r) =>
    /\ Len(CallsOf("analysis")) = 2
    /\ astate.iteration = 2
    /\ r.texts = <<ReportText, ReportText>>
    /\ LastBlocks(r.story, Len(ScenarioBlocks(1) \o ScenarioBlocks(2)))
         = ScenarioBlocks(1) \o ScenarioBlocks(2)

\* the scenario happened
C8_Witness == \E r \in Range(reports) : Scenario(r)

TwoBackoffs ==
  << [kind |-> "backoff", seconds |-> 2 ^ 0], [kind |-> "backoff", seconds |-> 2 ^ 1] >>
ThreeFailures == <<"github_exception", "github_exception", "github_exception">>

\* C9: two consecutive transient host failures and then a success give a
\* snapshot after exactly two backoff delays, of 2^0 and 2^1 seconds; a third
\* consecutive failure gives None, with no further delay and no 4th attempt.
C9_RetryScenario ==
  /\ (host = <<"github_exception", "github_exception", "ok">> /\ AllReturned("discovery")) =>
       /\ AfterDiscovery
       /\ ~fetched.none /\ fetched.value \in Snapshots
       /\ sleeps = TwoBackoffs
  /\ (Len(host) >= Len(ThreeFailures) /\ SubSeq(host, 1, Len(ThreeFailures)) = ThreeFailures) =>
       /\ host = ThreeFailures
       /\ AfterDiscovery
       /\ fetched.none
       /\ sleeps = TwoBackoffs

\* the fetcher succeeded on its third attempt
C9_Witness ==
  /\ host = <<"github_exception", "github_exception", "ok">>
  /\ ~fetched.none
  /\ sleeps = TwoBackoffs

\* the fetcher gave up on its third attempt
C9_WitnessGiveUp == host = ThreeFailures /\ fetched.none /\ AfterDiscovery

IsPrefix(p, q) == Len(p) <= Len(q) /\ p = SubSeq(q, 1, Len(p))

\* C10: for either value of resume the stages are entered in the order
\* Discovery, Analysis, Recommendation, each at most once, and the graph of a
\* stage is run at most once: the only repetition is the reflection inside it.
C10_StagesInOrderOnce ==
  /\ IsPrefix(entered, <<"run_discovery", "run_code_analysis", "run_recommendation">>)
  /\ Len(SelectSeq(genCalls, LAMBDA c : c.node = "analyze_code")) <= 1
  /\ Len(SelectSeq(genCalls, LAMBDA c : c.node = "generate_recommendations")) <= 1

\* a resumed run went through the three stages, reflection included
C10_Witness ==
  /\ resume
  /\ pc = "returned"
  /\ entered = <<"run_discovery", "run_code_analysis", "run_recommendation">>
  /\ Len(CallsOf("recommendation")) = 2

\* C11: the generation service is never called with empty file contents: when
\* the fetched contents are empty, no stage, Discovery included, makes a
\* generation call.
C11_NoGenerationOnEmptyContents ==
  \A c \in Range(genCalls) : c.input # <<>>

HasReport(stage) == \E r \in Range(reports) : r.stage = stage

\* Discovery, Analysis and Recommendation all completed without error
AllCompleted ==
  pc = "returned" /\ ret = "state" /\ HasReport("analysis") /\ HasReport("recommendation")

\* C12: when the three stages complete without error, the returned state has
\* a non-empty pdf_path, the path of a report of this run, and that is the
\* path main prints in its status line.
C12_PdfPathReturned ==
  AllCompleted =>
    /\ state.pdf_path # <<>>
    /\ \E r \in Range(reports) : r.path = state.pdf_path
    /\ printed # <<>> => printed[1] = <<"Analysis saved to: ">> \o state.pdf_path

InAnalysis == pc \in {"run_code_analysis", "analysis_agent"}
InRecommendation == pc \in {"run_recommendation", "recommendation_agent"}

\* C13: the Analysis and Recommendation stages leave repo_url, file_tree,
\* file_contents and programming_languages of the workflow state unchanged,
\* and the Recommendation stage leaves analysis_result unchanged.
C13_EarlierFieldsKept ==
  [][ /\ (InAnalysis \/ InRecommendation) =>
           /\ state'.repo_url = state.repo_url
           /\ state'.file_tree = state.file_tree
           /\ state'.file_contents = state.file_contents
           /\ state'.programming_languages = state.programming_languages
      /\ InRecommendation => state'.analysis_result = state.analysis_result ]_vars

\* both stages ran to their end on the one-file snapshot
C13_Witness ==
  /\ AllCompleted
  /\ state.file_contents = OneFile.file_contents
  /\ state.file_tree = OneFile.file_tree
  /\ state.analysis_result # <<>>

\* C14: without the host access token startup fails before any stage runs:
\* no fetch, no generation call, no report, no node entered, nothing returned.
C14_NoTokenNoRun ==
  ~token =>
    /\ pc \in {"boot", "startup_error"}
    /\ host = <<>> /\ genCalls = <<>> /\ reports = <<>> /\ entered = <<>>
    /\ ret = "pending" /\ printed = <<>>

\* the import failed for want of the token
C14_Witness == ~token /\ pc = "startup_error"

\* --------------------------------------------- claims about the renderers
\* the segments of the text rendered, and those the renderers do not skip
Segments == split(draft)
NonBlank(section) == strip(section, Whitespace) # <<>>
NonBlankSegments == SelectSeq(Segments, NonBlank)

\* the blocks of a story after its "... Iteration 1" header and spacer
BodyOf(story) ==
  LET h == CHOOSE i \in 1..Len(story) :
             /\ story[i].text # <<>>
             /\ story[i].text[1] \in {"Analysis Iteration ", "Recommendation Iteration "}
  IN SubSeq(story, h + 2, Len(story))

\* the block a story shows for the k-th segment that is not blank
BlockOf(story, k) == BodyOf(story)[2 * k - 1]

\* a story has a block for each segment that is not blank
Shown(story) == Len(BodyOf(story)) >= 2 * Len(NonBlankSegments)

FixedWidth(b) == b.kind = "Paragraph" /\ b.style = "code_style"
Heading(b) == b.kind = "Paragraph" /\ b.style \in {"header_style", "subheader_style"}
Coloured(b) == b.kind = "Paragraph" /\ b.style = "dependency_style"
BodyText(b) == b.kind = "Paragraph" /\ b.style = "content_style"

Keyword(section) ==
  \/ contains_lower(section, "dependency")
  \/ contains_lower(section, "package")
  \/ contains_lower(section, "vulnerabilities")

\* the one priority order: fence, heading marker, keyword, body text
OnePriorityOrder(section, b) ==
  IF contains(section, FENCE) THEN FixedWidth(b)
  ELSE IF startswith(section, "#") THEN Heading(b)
  ELSE IF Keyword(section) THEN Coloured(b)
  ELSE BodyText(b) /\ b.text = replace(section, NL, <<"<br/>">>)

\* C15 as stated: both renderers classify every segment by the first matching
\* rule of the order fence -> fixed-width, '#' -> heading, keyword ->
\* coloured, otherwise body text with its line breaks converted.
C15_Original ==
  \A i \in 1..Len(renders) :
    \A story \in {renders[i].analysis.story, renders[i].recommendation.story} :
      /\ Shown(story)
      /\ \A k \in 1..Len(NonBlankSegments) :
           OnePriorityOrder(NonBlankSegments[k], BlockOf(story, k))

\* the order of save_analysis_to_pdf: keyword, heading marker, body text as is
AnalysisOrder(section, b) ==
  IF Keyword(section) THEN Coloured(b) /\ b.text = section
  ELSE IF startswith(section, "#") THEN Heading(b)
  ELSE BodyText(b) /\ b.text = section

\* the order of save_recommendations_to_pdf: fence, heading marker, body text
\* with its line breaks converted
RecommendationOrder(section, b) ==
  IF contains(section, FENCE)
  THEN FixedWidth(b) /\ b.text = replace(section, FENCE, <<>>)
  ELSE IF startswith(section, "#") THEN Heading(b)
  ELSE BodyText(b) /\ b.text = replace(section, NL, <<"<br/>">>)

\* C15 (amended): save_analysis_to_pdf classifies every segment that is not
\* blank by keyword -> coloured, else '#' -> heading, else body text left as
\* it is (no fence rule, no line-break conversion); save_recommendations_to_pdf
\* classifies it by fence -> fixed-width with the fence removed, else '#' ->
\* heading, else body text with its line breaks converted (no keyword rule).
C15_TwoPriorityOrders ==
  \A i \in 1..Len(renders) :
    /\ Shown(renders[i].analysis.story)
    /\ Shown(renders[i].recommendation.story)
    /\ \A k \in 1..Len(NonBlankSegments) :
         /\ AnalysisOrder(NonBlankSegments[k], BlockOf(renders[i].analysis.story, k))
         /\ RecommendationOrder(NonBlankSegments[k],
                                BlockOf(renders[i].recommendation.story, k))

\* a rendered text with a segment that starts with '#' and holds both a
\* fence and a keyword
C15_Witness ==
  /\ renders # <<>>
  /\ \E k \in 1..Len(NonBlankSegments) :
       /\ startswith(NonBlankSegments[k], "#")
       /\ contains(NonBlankSegments[k], FENCE)
       /\ Keyword(NonBlankSegments[k])

\* C16 as stated: in both renderers every segment that contains 'dependency'
\* in any letter case is rendered with the colour style, also when it starts
\* with '#' or contains a code fence.
C16_Original ==
  \A i \in 1..Len(renders) :
    \A story \in {renders[i].analysis.story, renders[i].recommendation.story} :
      /\ Shown(story)
      /\ \A k \in 1..Len(NonBlankSegments) :
           contains_lower(NonBlankSegments[k], "dependency") => Coloured(BlockOf(story, k))

\* C16 (amended): save_analysis_to_pdf renders every segment that contains
\* 'dependency' in any letter case with the colour style, leaving its text as
\* it is, also when the segment starts with '#' or contains a code fence;
\* save_recommendations_to_pdf renders no segment with the colour style.
C16_ColourInAnalysisOnly ==
  \A i \in 1..Len(renders) :
    /\ Shown(renders[i].analysis.story)
    /\ \A k \in 1..Len(NonBlankSegments) :
         contains_lower(NonBlankSegments[k], "dependency")
           => BlockOf(renders[i].analysis.story, k)
                = Paragraph(NonBlankSegments[k], "dependency_style")
    /\ \A j \in 1..Len(renders[i].recommendation.story) :
         ~Coloured(renders[i].recommendation.story[j])

\* a rendered text with a segment that starts with '#' and holds 'Dependency'
\* and a code fence
C16_Witness ==
  /\ renders # <<>>
  /\ \E k \in 1..Len(NonBlankSegments) :
       /\ startswith(NonBlankSegments[k], "#")
       /\ contains(NonBlankSegments[k], "Dependency")
       /\ contains(NonBlankSegments[k], FENCE)

\* the text a paragraph shows: its tokens without the bold markup
Visible(t) == SelectSeq(t, LAMBDA x : x \notin {"<b>", "</b>"})

\* section begins with "### Title"
BeginsWithTitle(section) ==
  Len(section) >= Len(TitleSegment) /\ SubSeq(section, 1, Len(TitleSegment)) = TitleSegment

\* section is "### Title" followed by nothing but whitespace
TitleOnly(section) ==
  /\ BeginsWithTitle(section)
  /\ \A j \in Len(TitleSegment) + 1..Len(section) : section[j] \in Whitespace

\* C17 as stated: a segment beginning with '### Title' is rendered as a
\* heading that shows exactly 'Title'.
C17_Original ==
  \A i \in 1..Len(renders) :
    \A story \in {renders[i].analysis.story, renders[i].recommendation.story} :
      /\ Shown(story)
      /\ \A k \in 1..Len(NonBlankSegments) :
           BeginsWithTitle(NonBlankSegments[k])
             => /\ Heading(BlockOf(story, k))
                /\ Visible(BlockOf(story, k).text) = <<"Title">>

\* C17 (amended): a segment that is '### Title' followed by nothing but
\* whitespace is rendered as a heading whose text is 'Title' with the markers
\* and the surrounding whitespace stripped: by save_recommendations_to_pdf in
\* the secondary heading style with nothing added, by save_analysis_to_pdf in
\* its one heading style with the text wrapped in bold markup.
C17_TitleHeading ==
  \A i \in 1..Len(renders) :
    /\ Shown(renders[i].analysis.story)
    /\ Shown(renders[i].recommendation.story)
    /\ \A k \in 1..Len(NonBlankSegments) :
         TitleOnly(NonBlankSegments[k])
           => /\ BlockOf(renders[i].recommendation.story, k)
                   = Paragraph(<<"Title">>, "subheader_style")
              /\ BlockOf(renders[i].analysis.story, k)
                   = Paragraph(<<"<b>", "Title", "</b>">>, "header_style")

\* a rendered text whose first segment is '### Title' with whitespace after
\* it, followed by another segment
C17_Witness ==
  /\ renders # <<>>
  /\ Len(NonBlankSegments) >= 2
  /\ TitleOnly(NonBlankSegments[1])
  /\ Len(NonBlankSegments[1]) > Len(TitleSegment)

\* a story's body is one paragraph and one Spacer(10) for each of n segments
OneBlockOneSpacer(story, n) ==
  /\ Len(BodyOf(story)) = 2 * n
  /\ \A k \in 1..n :
       /\ BodyOf(story)[2 * k - 1].kind = "Paragraph"
       /\ BodyOf(story)[2 * k] = Spacer(10)

\* the spacers of a story's body
SpacersOf(story) == SelectSeq(BodyOf(story), LAMBDA b : b.kind = "Spacer")

\* C18 as stated: for every segment of the text the renderer appends one styled
\* block followed by one spacer, so a text has as many spacers as segments.
C18_Original ==
  \A i \in 1..Len(renders) :
    \A story \in {renders[i].analysis.story, renders[i].recommendation.story} :
      /\ OneBlockOneSpacer(story, Len(Segments))
      /\ Len(SpacersOf(story)) = Len(Segments)

\* C18 (amended): for every segment of the text that is not blank (not empty
\* after stripping whitespace) both renderers append exactly one styled block
\* immediately followed by exactly one spacer, and nothing for a blank
\* segment, so a text has as many spacers as segments that are not blank.
C18_OneSpacerPerNonBlankSegment ==
  \A i \in 1..Len(renders) :
    \A story \in {renders[i].analysis.story, renders[i].recommendation.story} :
      /\ OneBlockOneSpacer(story, Len(NonBlankSegments))
      /\ Len(SpacersOf(story)) = Len(NonBlankSegments)

\* a rendered text whose first segment is whitespace only and whose second
\* segment is not blank
C18_Witness ==
  /\ renders # <<>>
  /\ Len(Segments) = 2
  /\ Segments[1] # <<>> /\ ~NonBlank(Segments[1])
  /\ NonBlank(Segments[2])

\* ------------------------------------------------ claims about the workflow
\* C20 as stated: when a report cannot be written during a stage,
\* run_agentic_workflow raises the error instead of returning a value.
C20_Original == io_error => ret \notin {"None", "state"}

\* C20 (amended): when a report cannot be written during a stage, the error
\* leaves the renderer and the stage uncaught and without a retry, and is
\* caught by run_agentic_workflow, which returns the absence value: the stage
\* leaves no report, no later node runs and the workflow has returned None.
C20_WriteErrorReturnsNone ==
  io_error =>
    /\ pc = "returned"
    /\ ret = "None"
    /\ \/ /\ entered[Len(entered)] = "run_code_analysis"
          /\ \A i \in 1..Len(reports) : reports[i].stage # "analysis"
       \/ /\ entered[Len(entered)] = "run_recommendation"
          /\ \A i \in 1..Len(reports) : reports[i].stage # "recommendation"

\* the recommendation report could not be written after the analysis report was
C20_Witness ==
  /\ io_error
  /\ ret = "None"
  /\ Len(reports) = 1
  /\ entered[Len(entered)] = "run_recommendation"

\* C21 as stated: when the Recommendation stage completes, the recommendations
\* field of the returned state is the text returned by the last recommendation
\* generation call of the run.
C21_RecommendationsReturned ==
  (pc = "returned" /\ ret = "state" /\ HasReport("recommendation"))
    => state.recommendations
         = CallsOf("recommendation")[Len(CallsOf("recommendation"))].text

\* the number of attempts of the fetcher that met the host response kind
HostCount(kind) == Len(SelectSeq(host, LAMBDA h : h = kind))

\* the fetcher met nothing but rate limits and transient host errors
OnlyLimitsAndFaults ==
  host # <<>> /\ \A i \in 1..Len(host) : host[i] \in {"rate_limited", "github_exception"}

\* C22 as stated: a rate-limit wait consumes none of the 3 attempts, so when
\* the fetcher met only rate limits and transient host errors it returns None
\* only after 3 transient host errors.
C22_RateLimitConsumesNoAttempt ==
  (AfterDiscovery /\ OnlyLimitsAndFaults /\ fetched.none)
    => HostCount("github_exception") = max_retries

\* C23: whatever the host answers, gather_repo_content_node makes at most 3
\* loop attempts and at most 3 sleeps, each of finite length, and then returns
\* a snapshot or None: a run of the fetcher always ends.
C23_FetcherTerminates ==
  /\ [](/\ Len(host) <= max_retries
        /\ Len(sleeps) <= max_retries
        /\ \A i \in 1..Len(sleeps) : sleeps[i].seconds \in Nat
        /\ AfterDiscovery => (fetched.none \/ fetched.value \in Snapshots))
  /\ (pc = "run_discovery") ~> AfterDiscovery

\* the fetcher ended after three attempts and three sleeps
C23_Witness ==
  /\ AfterDiscovery
  /\ Len(host) = max_retries
  /\ Len(sleeps) = max_retries

\* the heading depth of a section: the number of '#' it starts with
RECURSIVE Depth(_)
Depth(section) ==
  IF section # <<>> /\ Head(section) = "#" THEN 1 + Depth(Tail(section)) ELSE 0

\* C24 as stated: in save_recommendations_to_pdf the heading style of a segment
\* that starts with '#' is selected by the number of leading '#' only: up to 2
\* the primary heading style, 3 or more the secondary one.
C24_StyleByLeadingMarkers ==
  \A i \in 1..Len(renders) :
    /\ Shown(renders[i].recommendation.story)
    /\ \A k \in 1..Len(NonBlankSegments) :
         (startswith(NonBlankSegments[k], "#") /\ ~contains(NonBlankSegments[k], FENCE))
           => BlockOf(renders[i].recommendation.story, k).style
                = (IF Depth(NonBlankSegments[k]) <= 2
                   THEN "header_style" ELSE "subheader_style")

\* the files written by the renderings so far, in order
Written ==
  Flatten([i \in 1..Len(renders) |->
             <<renders[i].analysis.path, renders[i].recommendation.path>>])

\* C25 as stated: every rendering writes to a file name no earlier rendering
\* wrote, so a report once created is never overwritten.
C25_WriteOnce ==
  \A i, j \in 1..Len(Written) : i < j => Written[i] # Written[j]

\* ------------------------------------------------ claims about the fetcher
\* the path of file i of the repository contains one of the directory markers
Marked(i) == \E skip \in SkipMarkers : InStr(skip, PathString(RepoFiles[i].path))

\* file i of the repository must not show up in the snapshot
Excluded(i) == repo[i] = "binary" \/ (repo[i] = "text" /\ Marked(i))

\* file i of the repository is a text file outside the marked directories
Included(i) == repo[i] = "text" /\ ~Skipped(PathString(RepoFiles[i].path))

\* the name of file i, as the tree shows it
NameOf(i) == RepoFiles[i].path[Len(RepoFiles[i].path)]

\* C26: in every snapshot the fetcher returns, a file whose path contains one
\* of the directory markers and a file that is not UTF-8 has no block in
\* file_contents, no entry in the file tree, and adds no language: every
\* language listed is the language of a file that is included.
C26_SkippedFilesLeaveNoTrace ==
  (pc = "fetched" /\ ~fetched.none) =>
    /\ \A i \in 1..Len(RepoFiles) :
         Excluded(i) =>
           /\ ~InStr(<<"File: ">> \o PathString(RepoFiles[i].path), fetched.value.file_contents)
           /\ ~InStr(<<RepoFiles[i].content>>, fetched.value.file_contents)
           /\ ~InStr(NameOf(i), fetched.value.file_tree)
    /\ \A l \in Range(SortedLexers) :
         InStr(<<l>>, fetched.value.programming_languages)
           => \E i \in 1..Len(RepoFiles) : Included(i) /\ RepoFiles[i].lexer = l
    /\ \A i \in 1..Len(RepoFiles) :
         Included(i) => InStr(NameOf(i), fetched.value.file_tree)

\* a snapshot of a repository with text files in marked directories, a file
\* that is not UTF-8 outside them, and a file that is included
C26_Witness ==
  /\ pc = "fetched" /\ ~fetched.none
  /\ repo[1] = "binary" /\ repo[2] = "text"
  /\ \A i \in 1..Len(RepoFiles) : Marked(i) => repo[i] = "text"
  /\ \E i \in 1..Len(RepoFiles) : Marked(i)

\* ---------------------------------------------------- claims about main
\* C27 as stated: when run_agentic_workflow returns None, main prints the
\* failure status line and does not read pdf_path from the absent result.
C27_FailureLinePrinted ==
  (pc = "returned" /\ ret = "None" /\ printed # <<>>)
    => printed = << <<"Analysis failed - check repository access">> >>

\* ------------------------------------------ claims about the stage reports
\* the "... Iteration i" section headers of a story
IterationHeaders(story) ==
  SelectSeq(story, LAMBDA b :
    /\ b.text # <<>>
    /\ b.text[1] \in {"Analysis Iteration ", "Recommendation Iteration "})

\* the final iteration counter of the stage a report belongs to
FinalIteration(r) == IF r.stage = "analysis" THEN astate.iteration ELSE rstate.iteration

\* C28: for every completed stage run, the report has as many iteration
\* sections as texts were passed to the renderer, and that number is the
\* final iteration counter of the stage and the 'Total Iterations' value of
\* the report metadata.
C28_SectionsEqualCounter ==
  \A r \in Range(reports) :
    /\ Len(r.texts) = FinalIteration(r)
    /\ Len(IterationHeaders(r.story)) = FinalIteration(r)
    /\ \A i \in 1..Len(IterationHeaders(r.story)) :
         IterationHeaders(r.story)[i].text[2] = ToString(i)
    /\ \E j \in 1..Len(r.story) :
         r.story[j] = Paragraph(<<"<b>", "Total Iterations", ":", "</b>", " ",
                                  ToString(Len(r.texts))>>, "content_style")

\* both stages completed and left a report
C28_Witness ==
  /\ HasReport("analysis") /\ HasReport("recommendation")
  /\ \A r \in Range(reports) : Len(r.texts) >= 2

\* C29: no stage node changes the iteration field of the workflow state: from
\* the call of run_agentic_workflow on, and so in every state it returns, the
\* field is 0, or 1 when resume is set, however many generation calls the
\* stages made.
C29_WorkflowIterationUnchanged ==
  pc \notin {"boot", "startup_error", "idle"}
    => state.iteration = (IF resume THEN 1 ELSE 0)

\* a resumed run that returned its state after five generation calls
C29_Witness ==
  /\ pc = "returned" /\ ret = "state"
  /\ resume
  /\ Len(genCalls) = 5
  /\ state.iteration = 1

====
